---- MODULE Spec2Model ----
(***************************************************************************)
(* The incremental ordering engine of topic-sort: OrderSolution and its    *)
(* cycle variant TSPSolution (src/tsp/tsp.py) and the path variant         *)
(* TopicSortSolution (src/topic_sort.py).                                  *)
(*                                                                         *)
(* A boolean numpy matrix is modelled as the set of index pairs <<i, j>>   *)
(* that hold True; an integer vector as a function on 0..dimension-1.      *)
(* An assert statement that fails raises AssertionError: the engine keeps  *)
(* whatever it had already written, and the line of the failing assert is  *)
(* recorded in the field raised (0 when the call returned normally).       *)
(***************************************************************************)
EXTENDS Integers, FiniteSets, Sequences, TLC

\* Largest dimension (number of nodes) explored.
MaxDimension == 4

VARIABLES
    variant,              \* "cycle" (TSPSolution) or "path" (TopicSortSolution)
    dimension,            \* problem.dimension
    edges_added,          \* self.edges_added, the True entries
    node_degrees,         \* self.node_degrees
    connected_component,  \* self.connected_component, -1 = not in a component
    feasible_edges,       \* self.feasible_edges, the True entries
    complete,             \* self.complete
    last_call,            \* arguments <<node_a, node_b>> of the latest add_edge, <<>> before any
    raised,               \* line of the assert that ended the latest call, 0 = returned
    super_feasible,       \* feasible_edges as super().add_edge left it in the latest call
    costs,                \* problem.costs, indexed by the pair <<i, j>>
    returned,             \* <<value>> returned by the latest call, <<>> for None
    tour                  \* the .tour file given to the constructor: <<>> for
                          \* filepath=None, else <<node sequence, has a closing -1 line>>

vars == <<variant, dimension, edges_added, node_degrees, connected_component,
          feasible_edges, complete, last_call, raised, super_feasible,
          costs, returned, tour>>

engine == <<edges_added, node_degrees, connected_component, feasible_edges, complete>>

Nodes(n) == 0 .. (n - 1)

----------------------------------------------------------------------------
(* OrderSolution.__init__ *)

\* for i in range(dimension): feasible_edges[i, i+1:] = True
valid_edges(n) == {p \in Nodes(n) \X Nodes(n) : p[1] < p[2]}

OrderSolution_init(n) ==
    [dimension           |-> n,
     edges_added         |-> {},
     node_degrees        |-> [i \in Nodes(n) |-> 0],
     connected_component |-> [i \in Nodes(n) |-> -1],
     feasible_edges      |-> valid_edges(n),
     complete            |-> FALSE,
     raised              |-> 0]

\* OrderProblem.__init__: costs = -1 * np.ones((dimension, dimension))
OrderProblem_costs(n) == [p \in Nodes(n) \X Nodes(n) |-> -1]

Raise(self, line) == [self EXCEPT !.raised = line]

\* assert np.sum(edges_added * valid_edges) == np.sum(edges_added)
ensure_validity(self) ==
    IF self.raised # 0 THEN self
    ELSE IF Cardinality(self.edges_added \cap valid_edges(self.dimension))
            = Cardinality(self.edges_added)
         THEN self
         ELSE Raise(self, 123)

\* The arguments taken in the order given: line 134 left out.
sorted_as_given(a, b) == <<a, b>>

\* node_a, node_b = sorted([node_a, node_b])
sorted(a, b) == IF a <= b THEN <<a, b>> ELSE <<b, a>>

----------------------------------------------------------------------------
(* OrderSolution.add_edge *)

\* Entry checks that leave out the feasibility assert of line 136.
entry_asserts_duplicate_only(self, p) ==
    IF p \in self.edges_added THEN 137 ELSE 0

\* Entry checks compiled away (python -O strips assert statements).
entry_asserts_stripped(self, p) == 0

\* Lines 136-137: the two entry asserts; the line of the first one that fails.
entry_asserts(self, p) ==
    IF p \notin self.feasible_edges THEN 136
    ELSE IF p \in self.edges_added THEN 137
    ELSE 0

\* Committing without line 138: the pair stays in the feasible mask.
commit_edge_keep_feasible(self, p) ==
    [self EXCEPT !.edges_added = @ \cup {p}]

\* Lines 138-139.
commit_edge(self, p) ==
    [self EXCEPT !.feasible_edges = @ \ {p},
                 !.edges_added    = @ \cup {p}]

\* Clamping the row only: line 147 left out.
clamp_node_row_only(feasible, node) ==
    {q \in feasible : q[1] # node}

\* Lines 146-147: feasible_edges[node, :] = False; feasible_edges[:, node] = False
clamp_node(feasible, node) ==
    {q \in feasible : q[1] # node /\ q[2] # node}

\* The loop body without lines 144-147: a full node keeps its feasible pairs.
degree_step_no_clamp(self, node) ==
    IF self.raised # 0 THEN self
    ELSE IF ~(self.node_degrees[node] < 2) THEN Raise(self, 142)
    ELSE [self EXCEPT !.node_degrees[node] = @ + 1]

\* Lines 142-147, one pass of the loop body.
degree_step(self, node) ==
    IF self.raised # 0 THEN self
    ELSE IF ~(self.node_degrees[node] < 2) THEN Raise(self, 142)
    ELSE LET inc == [self EXCEPT !.node_degrees[node] = @ + 1]
         IN IF inc.node_degrees[node] = 2
            THEN [inc EXCEPT !.feasible_edges = clamp_node(@, node)]
            ELSE inc

\* A loop that visits node_a only.
degree_loop_first_only(self, node_a, node_b) ==
    degree_step(self, node_a)

\* Lines 141-147: for node in [node_a, node_b].
degree_loop(self, node_a, node_b) ==
    degree_step(degree_step(self, node_a), node_b)

\* Lines 157-159: both endpoints outside every component.
new_component(self, node_a, node_b) ==
    [self EXCEPT !.connected_component =
        [i \in DOMAIN @ |-> IF i \in {node_a, node_b} THEN node_a ELSE @[i]]]

\* The merge with the mask of line 171 taken before the relabelling of lines
\* 168-170: only the swallower's old members are cleared among themselves.
merge_components_stale_mask(self, node_a, node_b) ==
    IF ~(self.connected_component[node_a] # self.connected_component[node_b])
    THEN Raise(self, 162)
    ELSE LET swallower == self.connected_component[node_a]
             swallowed == self.connected_component[node_b]
             mask == {i \in DOMAIN self.connected_component :
                         self.connected_component[i] = swallower}
         IN [self EXCEPT
               !.connected_component =
                   [i \in DOMAIN @ |-> IF @[i] = swallowed THEN swallower ELSE @[i]],
               !.feasible_edges = {q \in @ : ~(q[1] \in mask /\ q[2] \in mask)}]

\* Lines 160-175: both endpoints already in a component.
\* connected_component[[connected_component == swallowed]] = swallower is
\* boolean-mask assignment (a list holding one index is read as a tuple by the
\* numpy releases that still have np.int and np.bool).
merge_components(self, node_a, node_b) ==
    IF ~(self.connected_component[node_a] # self.connected_component[node_b])
    THEN Raise(self, 162)
    ELSE LET swallower == self.connected_component[node_a]
             swallowed == self.connected_component[node_b]
             cc   == [i \in DOMAIN self.connected_component |->
                        IF self.connected_component[i] = swallowed
                        THEN swallower ELSE self.connected_component[i]]
             mask == {i \in DOMAIN cc : cc[i] = swallower}
         IN [self EXCEPT !.connected_component = cc,
                         !.feasible_edges = {q \in @ : ~(q[1] \in mask /\ q[2] \in mask)}]

\* Absorbing a node without lines 187-188.
absorb_node_no_clamp(self, node_a, node_b) ==
    LET a_free    == self.connected_component[node_a] = -1
        addition  == IF a_free THEN node_a ELSE node_b
        swallower == IF a_free THEN self.connected_component[node_b]
                               ELSE self.connected_component[node_a]
    IN [self EXCEPT !.connected_component[addition] = swallower]

\* Absorbing a node without line 188: only the row of the new node is cleared.
absorb_node_row_only(self, node_a, node_b) ==
    LET a_free    == self.connected_component[node_a] = -1
        addition  == IF a_free THEN node_a ELSE node_b
        swallower == IF a_free THEN self.connected_component[node_b]
                               ELSE self.connected_component[node_a]
        cc        == [self.connected_component EXCEPT ![addition] = swallower]
        mask      == {i \in DOMAIN cc : cc[i] = swallower}
    IN [self EXCEPT !.connected_component = cc,
                    !.feasible_edges = {q \in @ : ~(q[1] = addition /\ q[2] \in mask)}]

\* Lines 176-188: exactly one endpoint already in a component.
absorb_node(self, node_a, node_b) ==
    LET a_free == self.connected_component[node_a] = -1
    IN IF ~a_free /\ ~(self.connected_component[node_b] = -1) THEN Raise(self, 181)
       ELSE LET addition  == IF a_free THEN node_a ELSE node_b
                swallower == IF a_free THEN self.connected_component[node_b]
                                       ELSE self.connected_component[node_a]
            IN IF ~(swallower # -1) THEN Raise(self, 184)
               ELSE LET cc   == [self.connected_component EXCEPT ![addition] = swallower]
                        mask == {i \in DOMAIN cc : cc[i] = swallower}
                    IN [self EXCEPT
                          !.connected_component = cc,
                          !.feasible_edges =
                              {q \in @ : ~(q[1] = addition /\ q[2] \in mask)
                                         /\ ~(q[2] = addition /\ q[1] \in mask)}]

\* Lines 157-188.
update_components(self, node_a, node_b) ==
    IF self.connected_component[node_a] = -1 /\ self.connected_component[node_b] = -1
    THEN new_component(self, node_a, node_b)
    ELSE IF self.connected_component[node_a] # -1 /\ self.connected_component[node_b] # -1
    THEN merge_components(self, node_a, node_b)
    ELSE absorb_node(self, node_a, node_b)

\* add_edge with the emptiness check of lines 153-155 moved after the
\* component update, against the comment of lines 149-152.
OrderSolution_add_edge_check_late(self, a, b) ==
    LET p      == sorted(a, b)
        failed == entry_asserts(self, p)
    IN IF failed # 0 THEN Raise(self, failed)
       ELSE LET counted == degree_loop(commit_edge(self, p), p[1], p[2])
                joined  == IF counted.raised # 0 THEN counted
                           ELSE update_components(counted, p[1], p[2])
            IN IF joined.raised # 0 THEN joined
               ELSE IF joined.feasible_edges = {}
                    THEN [joined EXCEPT !.complete = TRUE]
                    ELSE ensure_validity(joined)

\* Lines 133-190. self.raised is 0 on entry.
OrderSolution_add_edge(self, a, b) ==
    LET p      == sorted(a, b)
        node_a == p[1]
        node_b == p[2]
        failed == entry_asserts(self, p)
    IN IF failed # 0 THEN Raise(self, failed)
       ELSE LET counted == degree_loop(commit_edge(self, p), node_a, node_b)
            IN IF counted.raised # 0 THEN counted
               ELSE IF counted.feasible_edges = {}
                    THEN [counted EXCEPT !.complete = TRUE]
                    ELSE ensure_validity(update_components(counted, node_a, node_b))

----------------------------------------------------------------------------
(* TSPSolution.add_edge: the cycle variant *)

\* A subclass that never re-opens the closing edge.
reopen_never(self) == self

\* The re-opening guarded by "not self.complete" alone.
reopen_whenever_incomplete(self) ==
    IF ~self.complete
    THEN LET endpoints == {i \in Nodes(self.dimension) : self.node_degrees[i] = 1}
         IN IF Cardinality(endpoints) # 2 THEN Raise(self, 240)
            ELSE [self EXCEPT !.feasible_edges =
                    @ \cup {p \in endpoints \X endpoints : p[1] < p[2]}]
    ELSE self

\* The re-opening without the sorted() of line 241: the entry below the diagonal.
reopen_unsorted(self) ==
    IF ~self.complete /\ self.feasible_edges = {}
    THEN LET endpoints == {i \in Nodes(self.dimension) : self.node_degrees[i] = 1}
         IN IF Cardinality(endpoints) # 2 THEN Raise(self, 240)
            ELSE [self EXCEPT !.feasible_edges =
                    @ \cup {p \in endpoints \X endpoints : p[1] > p[2]}]
    ELSE self

\* Lines 238-242.
reopen_closing_edge(self) ==
    IF ~self.complete /\ self.feasible_edges = {}
    THEN LET endpoints == {i \in Nodes(self.dimension) : self.node_degrees[i] = 1}
         IN IF Cardinality(endpoints) # 2 THEN Raise(self, 240)
            ELSE [self EXCEPT !.feasible_edges =
                    @ \cup {p \in endpoints \X endpoints : p[1] < p[2]}]
    ELSE self

\* Lines 234-244.
TSPSolution_add_edge(self, a, b) ==
    LET base == OrderSolution_add_edge(self, a, b)
    IN IF base.raised # 0 THEN base
       ELSE ensure_validity(reopen_closing_edge(base))

\* np.sum(matrix, axis=(0, 1)) of an integer matrix given as a function on pairs.
RECURSIVE np_sum(_, _)
np_sum(pairs, entry) ==
    IF pairs = {} THEN 0
    ELSE LET p == CHOOSE q \in pairs : TRUE
         IN entry[p] + np_sum(pairs \ {p}, entry)

\* The product summed over every entry of the cost matrix, committed or not.
TSPSolution_cost_unmasked(self, problem_costs) ==
    np_sum(DOMAIN problem_costs, problem_costs)

\* Lines 246-248: np.sum(self.edges_added * self.problem.costs, axis=(0, 1)),
\* the elementwise product over all dimension x dimension entries.
TSPSolution_cost(self, problem_costs) ==
    np_sum(DOMAIN problem_costs,
           [p \in DOMAIN problem_costs |->
               (IF p \in self.edges_added THEN 1 ELSE 0) * problem_costs[p]])

----------------------------------------------------------------------------
(* TopicSortSolution.add_edge: the path variant *)

\* finish() belongs to the base class in order_problem, which is not among the
\* sources; spec section 4.2: an empty feasible mask is the trigger to mark
\* complete.
finish(self) == [self EXCEPT !.complete = TRUE]

\* src/topic_sort.py lines 77-83, over the add_edge of OrderSolution.
TopicSortSolution_add_edge(self, a, b) ==
    LET base == OrderSolution_add_edge(self, a, b)
    IN IF base.raised # 0 THEN base
       ELSE IF base.feasible_edges = {} THEN finish(base)
            ELSE ensure_validity(base)

----------------------------------------------------------------------------
(* The engine as a state machine: one add_edge call per step *)

Self ==
    [dimension           |-> dimension,
     edges_added         |-> edges_added,
     node_degrees        |-> node_degrees,
     connected_component |-> connected_component,
     feasible_edges      |-> feasible_edges,
     complete            |-> complete,
     raised              |-> 0]

Store(new, a, b, base) ==
    /\ edges_added'         = new.edges_added
    /\ node_degrees'        = new.node_degrees
    /\ connected_component' = new.connected_component
    /\ feasible_edges'      = new.feasible_edges
    /\ complete'            = new.complete
    /\ raised'              = new.raised
    /\ last_call'           = <<a, b>>
    /\ super_feasible'      = base.feasible_edges
    /\ returned'            = <<>>
    /\ UNCHANGED <<variant, dimension, costs, tour>>

Init ==
    /\ variant \in {"cycle", "path"}
    /\ dimension \in 1 .. MaxDimension
    /\ edges_added = OrderSolution_init(dimension).edges_added
    /\ node_degrees = OrderSolution_init(dimension).node_degrees
    /\ connected_component = OrderSolution_init(dimension).connected_component
    /\ feasible_edges = OrderSolution_init(dimension).feasible_edges
    /\ complete = OrderSolution_init(dimension).complete
    /\ last_call = <<>>
    /\ raised = 0
    /\ super_feasible = feasible_edges
    /\ costs = OrderProblem_costs(dimension)
    /\ returned = <<>>
    /\ tour = <<>>

\* soln.add_edge(a, b) on a TSPSolution, any pair of node indices.
AddEdgeCycle(a, b) ==
    /\ variant = "cycle"
    /\ Store(TSPSolution_add_edge(Self, a, b), a, b, OrderSolution_add_edge(Self, a, b))

\* soln.add_edge(a, b) on a TopicSortSolution, any pair of node indices.
AddEdgePath(a, b) ==
    /\ variant = "path"
    /\ Store(TopicSortSolution_add_edge(Self, a, b), a, b, OrderSolution_add_edge(Self, a, b))

Next ==
    \E a \in Nodes(dimension), b \in Nodes(dimension) :
        \/ AddEdgeCycle(a, b)
        \/ AddEdgePath(a, b)

Spec == Init /\ [][Next]_vars

----------------------------------------------------------------------------
(* Walking an engine (TSPProblem.show) and adding edges along a node sequence *)

\* The add_edge the class of the engine dispatches to.
add_edge(v, self, a, b) ==
    IF v = "cycle" THEN TSPSolution_add_edge(self, a, b)
                   ELSE TopicSortSolution_add_edge(self, a, b)

Range(seq) == {seq[k] : k \in 1 .. Len(seq)}

Smallest(S) == CHOOSE m \in S : \A o \in S : m <= o

\* Lines 73-85: the while loop. neighbors come in ascending order and the walk
\* moves to the first one not yet in the itinerary; the assert of line 84
\* allows a second unvisited neighbor only at the start of a complete tour.
\* A failed assert leaves no itinerary.
RECURSIVE walk(_, _, _, _)
walk(self, itinerary, here, from_tour_start) ==
    LET visited   == Append(itinerary, here)
        neighbors == {m \in Nodes(self.dimension) :
                         <<here, m>> \in self.edges_added \/ <<m, here>> \in self.edges_added}
        unvisited_neighbors == neighbors \ Range(visited)
    IN IF unvisited_neighbors = {} THEN visited
       ELSE IF ~(Cardinality(unvisited_neighbors) <= 1
                 \/ (from_tour_start /\ Len(visited) = 1)) THEN <<>>
       ELSE walk(self, visited, Smallest(unvisited_neighbors), from_tour_start)

\* Lines 68-71: the nodes a walk starts from. A complete tour has no node of
\* degree 1 and the walk starts at an arbitrary node (show takes node 0).
show_endpoints(self) ==
    LET endpoints == {i \in Nodes(self.dimension) : self.node_degrees[i] = 1}
    IN IF endpoints = {} THEN Nodes(self.dimension) ELSE endpoints

\* The itinerary without lines 86-87: the loop is left open.
show_itinerary_open(self, start) ==
    walk(self, <<>>, start, \A i \in Nodes(self.dimension) : self.node_degrees[i] # 1)

\* Lines 72-87: the itinerary from one start node; a complete tour is closed
\* by going back to the start.
show_itinerary(self, start) ==
    LET complete_tour == \A i \in Nodes(self.dimension) : self.node_degrees[i] # 1
        itinerary     == walk(self, <<>>, start, complete_tour)
    IN IF complete_tour /\ itinerary # <<>> THEN Append(itinerary, itinerary[1])
       ELSE itinerary

\* Lines 215-220: add_edge(latest_node, this_node) along a node sequence, from
\* position k on; an AssertionError ends it.
RECURSIVE add_edges_along(_, _, _, _)
add_edges_along(v, self, nodes, k) ==
    IF self.raised # 0 \/ k >= Len(nodes) THEN self
    ELSE add_edges_along(v, add_edge(v, self, nodes[k], nodes[k + 1]), nodes, k + 1)

\* The add_edge calls for a sequence of pairs, one after the other from
\* position k on; an AssertionError ends them.
RECURSIVE add_each(_, _, _, _)
add_each(v, self, pairs, k) ==
    IF self.raised # 0 \/ k > Len(pairs) THEN self
    ELSE add_each(v, add_edge(v, self, pairs[k][1], pairs[k][2]), pairs, k + 1)

\* A fresh engine fed the edges of the walk from start, in walking order.
RoundTrip(v, self, start) ==
    add_edges_along(v, OrderSolution_init(self.dimension), show_itinerary(self, start), 1)

----------------------------------------------------------------------------
(* ensure_completion, and TSPSolution.__init__ reading a .tour file *)

\* Lines 126-131: the line of the first assert that fails, 0 when all pass.
OrderSolution_ensure_completion(self) ==
    IF ensure_validity(self).raised # 0 THEN 123
    ELSE IF self.feasible_edges # {} THEN 128
    ELSE IF \E i \in Nodes(self.dimension) :
                self.connected_component[i] # self.connected_component[0] THEN 130
    ELSE IF ~self.complete THEN 131
    ELSE 0

\* Lines 229-232.
TSPSolution_ensure_completion(self) ==
    IF OrderSolution_ensure_completion(self) # 0
    THEN OrderSolution_ensure_completion(self)
    ELSE IF Cardinality(self.edges_added) # self.dimension THEN 231
    ELSE IF \E i \in Nodes(self.dimension) : self.node_degrees[i] # 2 THEN 232
    ELSE 0

\* src/topic_sort.py lines 71-75.
TopicSortSolution_ensure_completion(self) ==
    IF OrderSolution_ensure_completion(self) # 0
    THEN OrderSolution_ensure_completion(self)
    ELSE IF Cardinality(self.edges_added) # self.dimension - 1 THEN 73
    ELSE IF Cardinality({i \in Nodes(self.dimension) : self.node_degrees[i] = 2})
            # self.dimension - 2 THEN 74
    ELSE IF Cardinality({i \in Nodes(self.dimension) : self.node_degrees[i] = 1}) # 2 THEN 75
    ELSE 0

\* A loader that never moves latest_node on: line 220 left out.
RECURSIVE add_edges_from_first(_, _, _)
add_edges_from_first(self, nodes, k) ==
    IF self.raised # 0 \/ k >= Len(nodes) THEN self
    ELSE add_edges_from_first(TSPSolution_add_edge(self, nodes[1], nodes[k + 1]), nodes, k + 1)

load_tour_latest_stuck(self, nodes, closed) ==
    LET path == add_edges_from_first(self, nodes, 1)
    IN IF path.raised = 0 /\ closed
       THEN TSPSolution_add_edge(path, nodes[1], nodes[1])
       ELSE path

\* Lines 212-224: the nodes of the TOUR_SECTION, 0-indexed, and whether a -1
\* line follows them.
load_tour(self, nodes, closed) ==
    LET path == add_edges_along("cycle", self, nodes, 1)
    IN IF path.raised = 0 /\ closed
       THEN TSPSolution_add_edge(path, nodes[Len(nodes)], nodes[1])
       ELSE path

\* Lines 194-227. file is <<>> for filepath=None.
TSPSolution_init(n, file) ==
    IF file = <<>> THEN ensure_validity(OrderSolution_init(n))
    ELSE ensure_validity(load_tour(OrderSolution_init(n), file[1], file[2]))

\* The orders of the n nodes a .tour file can list.
Tours(n) == {s \in [1 .. n -> Nodes(n)] : \A k, l \in 1 .. n : s[k] = s[l] => k = l}

LoadInit ==
    /\ variant = "cycle"
    /\ dimension \in 1 .. MaxDimension
    /\ tour \in {<<>>} \cup {<<s, closed>> : s \in Tours(dimension), closed \in BOOLEAN}
    /\ edges_added = TSPSolution_init(dimension, tour).edges_added
    /\ node_degrees = TSPSolution_init(dimension, tour).node_degrees
    /\ connected_component = TSPSolution_init(dimension, tour).connected_component
    /\ feasible_edges = TSPSolution_init(dimension, tour).feasible_edges
    /\ complete = TSPSolution_init(dimension, tour).complete
    /\ raised = TSPSolution_init(dimension, tour).raised
    /\ last_call = <<>>
    /\ super_feasible = feasible_edges
    /\ costs = OrderProblem_costs(dimension)
    /\ returned = <<>>

LoadNext == \E a \in Nodes(dimension), b \in Nodes(dimension) : AddEdgeCycle(a, b)

LoadSpec == LoadInit /\ [][LoadNext]_vars

----------------------------------------------------------------------------
(* cost() on engines over problems with a filled cost matrix *)

\* Largest factor of the cost matrices explored.
MaxCostScale == 1

\* TSPProblem.__init__ writes costs[i, j] for i < j only and leaves the -1 of
\* OrderProblem elsewhere. The matrices explored give every pair i < j its own
\* power of two times a factor, so that a sum tells which entries went into it.
TSPProblem_costs(n, scale) ==
    [p \in Nodes(n) \X Nodes(n) |->
        IF p[1] < p[2] THEN scale * 2 ^ (p[1] * n + p[2]) ELSE -1]

CostInit ==
    /\ variant \in {"cycle", "path"}
    /\ dimension \in 1 .. MaxDimension
    /\ edges_added = OrderSolution_init(dimension).edges_added
    /\ node_degrees = OrderSolution_init(dimension).node_degrees
    /\ connected_component = OrderSolution_init(dimension).connected_component
    /\ feasible_edges = OrderSolution_init(dimension).feasible_edges
    /\ complete = OrderSolution_init(dimension).complete
    /\ last_call = <<>>
    /\ raised = 0
    /\ super_feasible = feasible_edges
    /\ costs \in {OrderProblem_costs(dimension)}
                 \cup {TSPProblem_costs(dimension, k) : k \in 1 .. MaxCostScale}
    /\ returned = <<>>
    /\ tour = <<>>

\* soln.cost() on a TSPSolution.
CallCost ==
    /\ variant = "cycle"
    /\ raised' = ensure_validity(Self).raised
    /\ returned' = IF raised' = 0 THEN <<TSPSolution_cost(Self, costs)>> ELSE <<>>
    /\ last_call' = <<>>
    /\ UNCHANGED <<variant, dimension, engine, super_feasible, costs, tour>>

CostNext == Next \/ CallCost

CostSpec == CostInit /\ [][CostNext]_vars

TypeOK ==
    /\ variant \in {"cycle", "path"}
    /\ dimension \in 1 .. MaxDimension
    /\ edges_added \subseteq Nodes(dimension) \X Nodes(dimension)
    /\ feasible_edges \subseteq Nodes(dimension) \X Nodes(dimension)
    /\ node_degrees \in [Nodes(dimension) -> 0 .. 2]
    /\ connected_component \in [Nodes(dimension) -> -1 .. (dimension - 1)]
    /\ complete \in BOOLEAN
    /\ raised \in {0, 136, 137}
    /\ super_feasible \subseteq Nodes(dimension) \X Nodes(dimension)

----------------------------------------------------------------------------
(* Graph notions the properties are stated in *)

\* The pair the latest call was about, as add_edge sorts it.
CalledPair(call) == sorted(call[1], call[2])

\* The latest call returned normally.
Accepted == last_call # <<>> /\ raised = 0

\* Number of committed edges touching node i.
Touching(edges, i) == Cardinality({e \in edges : e[1] = i \/ e[2] = i})

RECURSIVE Reach(_, _)
Reach(edges, S) ==
    LET T == S \cup {e[2] : e \in {d \in edges : d[1] \in S}}
               \cup {e[1] : e \in {d \in edges : d[2] \in S}}
    IN IF T = S THEN S ELSE Reach(edges, T)

\* i and j are joined by a chain of committed edges.
Connected(edges, i, j) == j \in Reach(edges, {i})

\* The committed edges hold no cycle: a forest has nodes - components edges.
Acyclic(edges, n) ==
    Cardinality(edges) = n - Cardinality({Reach(edges, {i}) : i \in Nodes(n)})

DegreeCount(d) == Cardinality({i \in Nodes(dimension) : node_degrees[i] = d})

----------------------------------------------------------------------------
\* C1: for N >= 2, in every state reached by add_edge calls of either variant,
\* node_degrees[i] is the number of committed edges touching i and lies in 0..2.
C1_DegreesCountEdges ==
    dimension >= 2 =>
        \A i \in Nodes(dimension) :
            /\ node_degrees[i] = Touching(edges_added, i)
            /\ node_degrees[i] \in {0, 1, 2}

\* An accepted call has brought a node to degree 2 while another is untouched.
C1_Witness ==
    /\ Accepted
    /\ \E i, j \in Nodes(dimension) : node_degrees[i] = 2 /\ node_degrees[j] = 0

\* C2: an accepted edge whose endpoints were already connected is the cycle
\* variant's closing edge, accepted when it was the only pair of the feasible
\* mask; the path variant accepts none, and until the cycle is complete the
\* committed edges hold no cycle.
C2_NoIntraComponentEdge ==
    [][ /\ \A e \in edges_added' \ edges_added :
              Connected(edges_added, e[1], e[2]) =>
                  (variant = "cycle" /\ feasible_edges = {e})
        /\ (variant = "path" \/ ~complete') => Acyclic(edges_added', dimension)
      ]_vars

\* The closing edge of a cycle has just been accepted.
C2_Witness ==
    /\ variant = "cycle"
    /\ Accepted
    /\ CalledPair(last_call) \in edges_added
    /\ Connected(edges_added \ {CalledPair(last_call)}, last_call[1], last_call[2])

\* C3: in the cycle variant with N >= 2 no call leaves complete false with an
\* empty feasible mask; every accepted call commits exactly one more edge and
\* never more than N are committed, so a loop that keeps adding any feasible
\* pair until complete ends, with complete true, after at most N calls.
C3_CycleNeverBlocked ==
    [][ (variant = "cycle" /\ dimension >= 2) =>
            /\ complete' \/ feasible_edges' # {}
            /\ raised' = 0 => Cardinality(edges_added') = Cardinality(edges_added) + 1
            /\ Cardinality(edges_added') <= dimension
      ]_vars

\* The cycle is one edge short and the only feasible pair is the re-opened one.
C3_Witness ==
    /\ variant = "cycle"
    /\ ~complete
    /\ Cardinality(edges_added) = dimension - 1
    /\ Cardinality(feasible_edges) = 1

\* C4: in the cycle variant with N >= 2, complete implies N committed edges,
\* every node at degree 2 and one label on all nodes (ensure_completion passes).
C4_CycleCompletion ==
    (variant = "cycle" /\ dimension >= 2 /\ complete) =>
        /\ Cardinality(edges_added) = dimension
        /\ \A i \in Nodes(dimension) : node_degrees[i] = 2
        /\ \A i \in Nodes(dimension) : connected_component[i] = connected_component[0]
        /\ feasible_edges = {}

\* C5: in the path variant with N >= 2, an empty feasible mask after an
\* accepted add_edge means N-1 committed edges, two nodes of degree 1, N-2 of
\* degree 2 and one component label carried by every node.
C5_PathCompletion ==
    (variant = "path" /\ dimension >= 2 /\ Accepted /\ feasible_edges = {}) =>
        /\ Cardinality(edges_added) = dimension - 1
        /\ DegreeCount(1) = 2
        /\ DegreeCount(2) = dimension - 2
        /\ \A i \in Nodes(dimension) :
              /\ connected_component[i] # -1
              /\ connected_component[i] = connected_component[0]

\* C6: add_edge on a pair that is not in the feasible mask (a = b, an endpoint
\* at degree 2, endpoints of one component, a committed pair) raises and
\* leaves edges_added, node_degrees, feasible_edges, connected_component and
\* complete as they were.
C6_InfeasibleRejected ==
    [][ (last_call' # <<>> /\ CalledPair(last_call') \notin feasible_edges) =>
            (raised' # 0 /\ UNCHANGED engine)
      ]_vars

\* A call was rejected for a pair never committed, between two nodes of degree
\* below 2 that are already connected.
C6_Witness ==
    /\ last_call # <<>>
    /\ raised # 0
    /\ last_call[1] # last_call[2]
    /\ CalledPair(last_call) \notin edges_added
    /\ node_degrees[last_call[1]] < 2
    /\ node_degrees[last_call[2]] < 2
    /\ Connected(edges_added, last_call[1], last_call[2])

\* C7 as claimed: re-adding a committed pair is rejected by the
\* already-committed check (line 137), a failure apart from the infeasible one.
C7_DuplicateCheckRejects ==
    (last_call # <<>> /\ raised # 0 /\ CalledPair(last_call) \in edges_added) =>
        raised = 137

\* C7 amended: re-adding a committed pair is rejected by the feasibility
\* assert (line 136), like any other infeasible pair, and changes nothing.
C7_DuplicateRejectedAsInfeasible ==
    [][ (last_call' # <<>> /\ CalledPair(last_call') \in edges_added) =>
            (raised' = 136 /\ UNCHANGED engine)
      ]_vars

\* A committed pair has been offered again and rejected.
C7_Witness ==
    /\ last_call # <<>>
    /\ raised # 0
    /\ CalledPair(last_call) \in edges_added

\* C8: inside a call the mask only loses pairs up to the return of the base
\* add_edge; a pair enters the mask afterwards only in the cycle variant, in
\* the call that commits edge N-1: one pair, lost in that same call, joining
\* the two nodes of degree 1. The path variant never adds a pair.
C8_MaskShrinks ==
    [][ /\ super_feasible' \subseteq feasible_edges
        /\ \/ feasible_edges' \subseteq super_feasible'
           \/ /\ variant = "cycle"
              /\ Cardinality(edges_added) = dimension - 2
              /\ Cardinality(edges_added') = dimension - 1
              /\ \E p \in feasible_edges \ super_feasible' :
                    /\ feasible_edges' = super_feasible' \cup {p}
                    /\ {i \in Nodes(dimension) : node_degrees'[i] = 1} = {p[1], p[2]}
      ]_vars

\* The base add_edge emptied the mask and the cycle variant put a pair back.
C8_Witness ==
    /\ Accepted
    /\ super_feasible = {}
    /\ feasible_edges # {}

\* C9: once complete is true it stays true and every later add_edge raises,
\* leaving edges_added, node_degrees, feasible_edges and connected_component
\* unchanged.
C9_ReadOnlyAfterComplete ==
    [][ complete => (complete' /\ raised' # 0 /\ UNCHANGED engine) ]_vars

\* A call made on a completed cycle of at least three nodes was rejected.
C9_Witness ==
    /\ variant = "cycle"
    /\ dimension >= 3
    /\ complete
    /\ raised # 0

\* C10: for N >= 2, after every accepted add_edge the nodes with a label
\* (not -1) are exactly those of degree >= 1, and two labelled nodes share a
\* label exactly when committed edges connect them.
C10_LabelsAreComponents ==
    (dimension >= 2 /\ Accepted) =>
        /\ \A i \in Nodes(dimension) :
              (connected_component[i] # -1) <=> (node_degrees[i] >= 1)
        /\ \A i, j \in Nodes(dimension) :
              (connected_component[i] # -1 /\ connected_component[j] # -1) =>
                  ((connected_component[i] = connected_component[j])
                      <=> Connected(edges_added, i, j))


\* C11: in every state of both variants a node of degree 2 has no pair in the
\* feasible mask, as row or as column; the pair the cycle variant re-opens
\* touches no node of degree 2.
C11_Degree2NodesClamped ==
    \A i \in Nodes(dimension) :
        node_degrees[i] = 2 =>
            \A q \in feasible_edges : q[1] # i /\ q[2] # i

\* The cycle variant has re-opened its closing pair beside nodes of degree 2.
C11_Witness ==
    /\ variant = "cycle"
    /\ Accepted
    /\ super_feasible = {}
    /\ feasible_edges # {}
    /\ \E i \in Nodes(dimension) : node_degrees[i] = 2


\* C12: in every state of a cycle-variant engine cost() returns the sum of
\* problem.costs[i][j] over the committed pairs i < j of edges_added; no other
\* entry of the cost matrix goes into it.
C12_CostSumsCommittedPairs ==
    (variant = "cycle" /\ returned # <<>>) =>
        returned[1] = np_sum({e \in edges_added : e[1] < e[2]}, costs)

\* cost() has been called on a complete tour over a filled cost matrix.
C12_Witness ==
    /\ variant = "cycle"
    /\ returned # <<>>
    /\ complete
    /\ dimension >= 3
    /\ costs # OrderProblem_costs(dimension)


\* C13 as claimed: walking a completed engine from an endpoint (any node of a
\* cycle) and adding the edges in that order to a fresh engine gives the same
\* edges_added, node_degrees, feasible_edges, connected_component and complete.
C13_RoundTripIdentical ==
    (complete /\ Accepted) =>
        \A start \in show_endpoints(Self) :
            RoundTrip(variant, Self, start) = Self

\* C13 amended: the round trip is accepted at every step and gives the same
\* edges_added, node_degrees, feasible_edges and complete, and a
\* connected_component that groups the nodes the same way; the label values
\* may differ.
C13_RoundTripUpToLabels ==
    (complete /\ Accepted) =>
        \A start \in show_endpoints(Self) :
            LET again == RoundTrip(variant, Self, start)
            IN /\ again.raised = 0
               /\ again.edges_added = edges_added
               /\ again.node_degrees = node_degrees
               /\ again.feasible_edges = feasible_edges
               /\ again.complete = complete
               /\ \A i, j \in Nodes(dimension) :
                     /\ (again.connected_component[i] = -1) <=> (connected_component[i] = -1)
                     /\ (again.connected_component[i] = again.connected_component[j])
                            <=> (connected_component[i] = connected_component[j])

\* A completed engine whose round trip comes back under another label.
C13_Witness ==
    /\ complete
    /\ Accepted
    /\ \E start \in show_endpoints(Self) :
          LET again == RoundTrip(variant, Self, start)
          IN /\ again.raised = 0
             /\ again.edges_added = edges_added
             /\ again.connected_component # connected_component


\* C14: in every state add_edge(a, b) and add_edge(b, a) lead to the same
\* state, edges_added holds only pairs <<i, j>> with 0 <= i < j < N, and
\* ensure_validity does not fail.
C14_OrderOfEndpointsIrrelevant ==
    /\ \A a, b \in Nodes(dimension) :
          add_edge(variant, Self, a, b) = add_edge(variant, Self, b, a)
    /\ \A e \in edges_added :
          e[1] \in Nodes(dimension) /\ e[2] \in Nodes(dimension) /\ e[1] < e[2]
    /\ ensure_validity(Self).raised = 0
    /\ raised # 123

\* A call that named the larger node first was accepted and committed sorted.
C14_Witness ==
    /\ Accepted
    /\ last_call[1] > last_call[2]
    /\ <<last_call[2], last_call[1]>> \in edges_added


\* C15: in an accepted add_edge of the cycle variant the mask is re-opened
\* exactly when the base add_edge returned with an empty mask and complete
\* false; then N-1 edges are committed, two nodes have degree 1 and the mask
\* becomes the one pair of those two nodes; the next accepted call adds that
\* pair, sets complete and leaves the mask empty.
C15_ReopenExactlyWhenAlmostClosed ==
    [][ (variant = "cycle" /\ raised' = 0) =>
            LET almost == super_feasible' = {} /\ ~complete'
                ends   == {i \in Nodes(dimension) : node_degrees'[i] = 1}
            IN /\ (feasible_edges' # super_feasible') <=> almost
               /\ almost =>
                     /\ Cardinality(edges_added') = dimension - 1
                     /\ Cardinality(ends) = 2
                     /\ Cardinality(feasible_edges') = 1
                     /\ feasible_edges' = {p \in ends \X ends : p[1] < p[2]}
               /\ (~complete /\ Cardinality(edges_added) = dimension - 1) =>
                     /\ edges_added' = edges_added \cup feasible_edges
                     /\ complete'
                     /\ feasible_edges' = {}
      ]_vars

\* The re-opened pair has just been added and the tour is complete.
C15_Witness ==
    /\ variant = "cycle"
    /\ Accepted
    /\ complete
    /\ dimension >= 3
    /\ Cardinality(edges_added) = dimension
    /\ feasible_edges = {}


\* C16: for N >= 3 and every order p of the N nodes, a TSPSolution built from
\* the tour p with its closing line has every add_edge of the loader accepted
\* and passes ensure_completion.
C16_TourLoads ==
    (dimension >= 3 /\ tour # <<>> /\ last_call = <<>>) =>
        (tour[2] => (raised = 0 /\ TSPSolution_ensure_completion(Self) = 0))

\* A closed tour that does not start at node 0 has been loaded.
C16_Witness ==
    /\ dimension >= 3
    /\ tour # <<>>
    /\ last_call = <<>>
    /\ tour[2]
    /\ tour[1][1] # 0
    /\ complete


\* C17: in the cycle variant with N = 3, with two edges committed complete is
\* false and ensure_completion fails, and complete holds only with exactly
\* three edges committed.
C17_ThreeNodesNeedThreeEdges ==
    (variant = "cycle" /\ dimension = 3) =>
        /\ Cardinality(edges_added) = 2 =>
              (~complete /\ TSPSolution_ensure_completion(Self) # 0)
        /\ complete => Cardinality(edges_added) = 3

\* Two edges of a three-node cycle are committed after an accepted call.
C17_Witness ==
    /\ variant = "cycle"
    /\ dimension = 3
    /\ Accepted
    /\ Cardinality(edges_added) = 2


\* C18: an add_edge on a pair of the feasible mask returns normally in every
\* state of either variant: none of the asserts of lines 142, 162, 181, 184
\* and 240 fails.
C18_InternalAssertsHold ==
    [][ /\ (last_call' # <<>> /\ CalledPair(last_call') \in feasible_edges) => raised' = 0
        /\ raised' \notin {142, 162, 181, 184, 240}
      ]_vars

\* An accepted call has merged two components, past the assert of line 162.
C18_Witness ==
    /\ Accepted
    /\ LET before == edges_added \ {CalledPair(last_call)}
       IN /\ Touching(before, last_call[1]) = 1
          /\ Touching(before, last_call[2]) = 1
          /\ ~Connected(before, last_call[1], last_call[2])


\* The closing pair of the cycle variant while it is re-opened.
ReopenedPair(p) ==
    /\ variant = "cycle"
    /\ ~complete
    /\ Cardinality(edges_added) = dimension - 1
    /\ node_degrees[p[1]] = 1
    /\ node_degrees[p[2]] = 1

\* C19: in every state a pair is in the feasible mask exactly when it is a
\* pair i < j that is not committed, joins two nodes of degree below 2 and
\* joins nodes not connected by committed edges, or when it is the closing
\* pair the cycle variant has re-opened.
C19_MaskExact ==
    \A p \in Nodes(dimension) \X Nodes(dimension) :
        (p \in feasible_edges) <=>
            /\ p[1] < p[2]
            /\ \/ /\ p \notin edges_added
                  /\ node_degrees[p[1]] < 2
                  /\ node_degrees[p[2]] < 2
                  /\ ~Connected(edges_added, p[1], p[2])
               \/ ReopenedPair(p)

\* After an accepted call some pairs are feasible and some uncommitted pairs
\* between nodes of degree below 2 are not, being inside one component.
C19_Witness ==
    /\ Accepted
    /\ feasible_edges # {}
    /\ \E p \in valid_edges(dimension) \ (edges_added \cup feasible_edges) :
          node_degrees[p[1]] < 2 /\ node_degrees[p[2]] < 2


\* The sequences that list every element of S once.
Orders(S) ==
    {s \in [1 .. Cardinality(S) -> S] :
        \A k, l \in 1 .. Cardinality(S) : s[k] = s[l] => k = l}

====
